---- MODULE Spec2Model ----
(***************************************************************************)
(* Model of scraper.py: the command-line run (main), the date parser, the *)
(* record extractor and the paginated collector (scrape_reviews) of the   *)
(* three platform scrapers, which share one control loop.                 *)
(*                                                                         *)
(* A date text is described by the template it is written in (shape),     *)
(* the calendar day it denotes and whether it denotes a time of day after *)
(* midnight (late).  A datetime is an integer that orders first by day,   *)
(* then midnight before any later time of that day.                       *)
(***************************************************************************)
EXTENDS Integers, Sequences, FiniteSets, TLC

\* ---- bounds of the model ----
MaxDay == 2
MaxRecords == 2
MaxPageSize == 2
MaxCalls == 2

\* the calendar days of review dates, and those of the window bounds
Days == 0..MaxDay
ArgDays == 1..MaxDay

Text(shape, day, late) == [shape |-> shape, day |-> day, late |-> late]

\* the naive datetime of a calendar day, at midnight or later that day
Instant(day, late) == 2 * day + (IF late THEN 1 ELSE 0)

\* ---- datetime.strptime / datetime.fromisoformat ----

\* the templates tried by parse_date, in priority order
date_formats ==
    << "%Y-%m-%d", "%Y-%m-%d %H:%M:%S", "%B %d, %Y", "%b %d, %Y",
       "%B %d, %Y %I:%M %p", "%b %d, %Y %I:%M %p", "%m/%d/%Y", "%d/%m/%Y",
       "%d-%m-%Y", "%m-%d-%Y", "%d %B %Y", "%d %b %Y" >>

HasTime(fmt) ==
    fmt \in {"%Y-%m-%d %H:%M:%S", "%B %d, %Y %I:%M %p", "%b %d, %Y %I:%M %p"}

\* strptime(text, fmt) succeeds: the text is written in that template;
\* the directives %m and %d also accept a month or day without leading zero
StrptimeOk(text, fmt) ==
    \/ text.shape = fmt
    \/ fmt = "%Y-%m-%d" /\ text.shape = "%Y-%-m-%-d"

\* the naive datetime strptime builds: midnight when the template has no time
StrptimeValue(text, fmt) ==
    IF HasTime(fmt) THEN Instant(text.day, text.late) ELSE Instant(text.day, FALSE)

\* fromisoformat(text.replace('Z', '+00:00')) succeeds on ISO-8601 date-times
IsoOk(text) == text.shape \in {"iso-T", "iso-Z", "iso-offset"}

\* a zone marker (Z or a UTC offset) makes the datetime offset-aware
IsoAware(text) == text.shape \in {"iso-Z", "iso-offset"}

\* ---- validate_dates ----
\* variant: the order of start and end is not checked
ValidateDates_unordered(start_date, end_date) ==
    IF ~StrptimeOk(start_date, "%Y-%m-%d") \/ ~StrptimeOk(end_date, "%Y-%m-%d")
    THEN [error |-> TRUE, start |-> 0, end |-> 0]
    ELSE [error |-> FALSE, start |-> StrptimeValue(start_date, "%Y-%m-%d"),
          end |-> StrptimeValue(end_date, "%Y-%m-%d")]

ValidateDates(start_date, end_date) ==
    IF ~StrptimeOk(start_date, "%Y-%m-%d") \/ ~StrptimeOk(end_date, "%Y-%m-%d")
    THEN [error |-> TRUE, start |-> 0, end |-> 0]
    ELSE LET start == StrptimeValue(start_date, "%Y-%m-%d")
             end == StrptimeValue(end_date, "%Y-%m-%d")
         IN IF start > end
            THEN [error |-> TRUE, start |-> start, end |-> end]
            ELSE [error |-> FALSE, start |-> start, end |-> end]

\* ---- parse_date ----
NoDate(warned) ==
    [ok |-> FALSE, t |-> 0, aware |-> FALSE, warned |-> warned, raised |-> FALSE]

\* variant: without the guard, None.strip() raises and "" runs through the
\* templates to the warning
EmptyGuard_missing(date_str) ==
    [ok |-> FALSE, t |-> 0, aware |-> FALSE, warned |-> date_str.shape = "empty",
     raised |-> date_str.shape = "None"]

\* the guard of parse_date: an empty text or a non-string returns None at once
EmptyGuard(date_str) == NoDate(FALSE)

\* variant: a text that no template matches falls back to the earliest datetime
Unparsed_epoch(date_str) ==
    [ok |-> TRUE, t |-> 0, aware |-> FALSE, warned |-> TRUE, raised |-> FALSE]

\* no template and no ISO form matched: a warning is logged, None is returned
Unparsed(date_str) == NoDate(TRUE)

ParseDate(date_str) ==
    IF date_str.shape \in {"None", "empty"}
    THEN EmptyGuard(date_str)
    ELSE LET hits == {i \in 1..Len(date_formats) : StrptimeOk(date_str, date_formats[i])}
         IN IF hits # {}
            THEN LET first == CHOOSE i \in hits : \A j \in hits : i <= j
                 IN [ok |-> TRUE, t |-> StrptimeValue(date_str, date_formats[first]),
                     aware |-> FALSE, warned |-> FALSE, raised |-> FALSE]
            ELSE IF IsoOk(date_str)
                 THEN [ok |-> TRUE, t |-> Instant(date_str.day, date_str.late),
                       aware |-> IsoAware(date_str), warned |-> FALSE, raised |-> FALSE]
                 ELSE Unparsed(date_str)

\* comparing an offset-aware datetime with the naive window bounds raises TypeError
CompareFaults(review_dt) == review_dt.aware

\* ---- the platform selector ----
Choices == {"G2", "Capterra", "TrustRadius"}

Lower(source) ==
    CASE source = "G2" -> "g2"
      [] source = "Capterra" -> "capterra"
      [] source = "TrustRadius" -> "trustradius"
      [] OTHER -> source

\* get_scraper: the source tag of the scraper class, or "ValueError"
GetScraper(source) ==
    LET s == Lower(source)
    IN CASE s = "g2" -> "G2"
         [] s = "capterra" -> "Capterra"
         [] s = "trustradius" -> "TrustRadius"
         [] OTHER -> "ValueError"

\* ---- the record extractor ----
\* variant: a record is returned also when title and description are empty
ParseReview_sparse(element, tag) ==
    << [source |-> tag, title |-> element.title,
        description |-> element.description, review_date |-> element.date,
        reviewer_name |-> element.reviewer_name, rating |-> element.rating] >>

\* an element is described by the texts its locators find ("" when no node)
ParseReview(element, tag) ==
    IF element.title # "" \/ element.description # ""
    THEN << [source |-> tag, title |-> element.title,
             description |-> element.description, review_date |-> element.date,
             reviewer_name |-> element.reviewer_name, rating |-> element.rating] >>
    ELSE << >>

\* ---- the page filter of scrape_reviews ----
\* variant: the stop on a record dated before the window start is missing
BeforeStart_skipped(review_dt, start_date) == FALSE

BeforeStart(review_dt, start_date) == review_dt < start_date

\* variant: the window bounds are compared strictly
InRange_exclusive(review_dt, start_date, end_date) ==
    start_date < review_dt /\ review_dt < end_date

InRange(review_dt, start_date, end_date) ==
    start_date <= review_dt /\ review_dt <= end_date

\* variant: a failed search request falls back to a guessed product URL
SearchCompany_fallback(outcome, tag) ==
    IF outcome \in {"found", "transport"}
    THEN << [base |-> tag, path |-> "product"] >> ELSE << >>

\* search_company: the product URL, or None (the empty sequence)
SearchCompany(outcome, tag) ==
    IF outcome = "found" THEN << [base |-> tag, path |-> "product"] >> ELSE << >>

\* variant: a transport failure discards what was accumulated
OnRequestException_discard(reviews) == << >>

\* the except clause of the pagination loop: break, then return reviews
OnRequestException(reviews) == reviews

\* variant: the start date is echoed from the wrong argument
OutputData_swapped(args, reviews) ==
    [company_name |-> args.company_name, source |-> args.source,
     start_date |-> args.end_date, end_date |-> args.end_date,
     total_reviews |-> Len(reviews), reviews |-> reviews]

\* the document main serialises
OutputData(args, reviews) ==
    [company_name |-> args.company_name, source |-> args.source,
     start_date |-> args.start_date, end_date |-> args.end_date,
     total_reviews |-> Len(reviews), reviews |-> reviews]

\* ---- the inputs of a run ----
Companies == {"Acme"}
Sources == Choices \cup {"g2", "Yelp"}

ArgTexts ==
    {Text("%Y-%m-%d", d, FALSE) : d \in ArgDays}
        \cup {Text("%Y-%-m-%-d", 1, FALSE), Text("%m/%d/%Y", 1, FALSE)}

ElementDates ==
    {Text("%Y-%m-%d", d, FALSE) : d \in Days}
        \cup {Text("%Y-%m-%d %H:%M:%S", d, TRUE) : d \in ArgDays}
        \cup {Text("iso-Z", 1, TRUE), Text("relative", 0, FALSE),
              Text("empty", 0, FALSE)}

Element(title, description, date) ==
    [title |-> title, description |-> description, date |-> date,
     reviewer_name |-> "Pat", rating |-> "4.5"]

Elements ==
    {Element("Great", "Works well", dt) : dt \in ElementDates}
        \cup {Element("", "", Text("%Y-%m-%d", 1, FALSE))}

SeqsUpTo(S, n) == UNION {[1..k -> S] : k \in 0..n}

Listings == SeqsUpTo(Elements, MaxRecords)

Min(a, b) == IF a < b THEN a ELSE b

\* the review elements of page k of the listing (none beyond the last page)
PageElements(all, size, k) ==
    SubSeq(all, (k - 1) * size + 1, Min(k * size, Len(all)))

VARIABLES args, listing, page_size, pc, scraper, lookup, requests, page,
          reviews, elements, idx, page_reviews, stop_reason, exc, exit_code,
          output_file, calls, date_warnings

vars == << args, listing, page_size, pc, scraper, lookup, requests, page,
           reviews, elements, idx, page_reviews, stop_reason, exc, exit_code,
           output_file, calls, date_warnings >>

\* the inputs of the run and the content of the site: never written
site == << args, listing, page_size >>

NoScraper == [source |-> "none", start_date |-> 0, end_date |-> 0]

Init ==
    /\ args \in [company_name : Companies, start_date : ArgTexts,
                 end_date : ArgTexts, source : Sources]
    /\ listing \in Listings
    /\ page_size \in 1..MaxPageSize
    /\ pc = "main"
    /\ scraper = NoScraper
    /\ lookup = "none"
    /\ requests = << >>
    /\ page = 0
    /\ reviews = << >>
    /\ elements = << >>
    /\ idx = 0
    /\ page_reviews = << >>
    /\ stop_reason = "none"
    /\ exc = "none"
    /\ exit_code = -1
    /\ output_file = << >>
    /\ calls = << >>
    /\ date_warnings = 0

\* an exception that reaches main: logged, exit code 1, nothing written
Fail(name, code) ==
    /\ pc' = "exit"
    /\ exc' = name
    /\ exit_code' = code

\* main up to the construction of the scraper
Startup ==
    /\ pc = "main"
    /\ IF args.source \notin Choices
       THEN Fail("SystemExit", 2) /\ UNCHANGED scraper
       ELSE LET v == ValidateDates(args.start_date, args.end_date)
                tag == GetScraper(args.source)
            IN IF v.error \/ tag = "ValueError"
               THEN Fail("ValueError", 1) /\ UNCHANGED scraper
               ELSE /\ scraper' = [source |-> tag, start_date |-> v.start,
                                   end_date |-> v.end]
                    /\ pc' = "search"
                    /\ UNCHANGED << exc, exit_code >>
    /\ UNCHANGED << site, calls, date_warnings, lookup, requests, page, reviews,
                    elements, idx, page_reviews, stop_reason, output_file >>

\* scrape_reviews up to the pagination loop: the single lookup request
Search ==
    /\ pc = "search"
    /\ \E outcome \in {"found", "nolink", "transport"} :
          LET product_url == SearchCompany(outcome, scraper.source)
          IN /\ requests' = Append(requests, [kind |-> "search", page |-> 0])
             /\ lookup' = outcome
             /\ IF product_url = << >>
                THEN Fail("ScrapingError", 1) /\ UNCHANGED page
                ELSE /\ pc' = "fetch"
                     /\ page' = 1
                     /\ UNCHANGED << exc, exit_code >>
    /\ UNCHANGED << site, calls, date_warnings, scraper, reviews, elements, idx,
                    page_reviews, stop_reason, output_file >>

\* one page request of the loop, up to the start of the element scan
FetchPage ==
    /\ pc = "fetch"
    /\ requests' = Append(requests, [kind |-> "page", page |-> page])
    /\ \E response \in {"ok", "error"} :
          IF response = "error"
          THEN /\ reviews' = OnRequestException(reviews)
               /\ stop_reason' = "transport"
               /\ pc' = "returned"
               /\ UNCHANGED << elements, idx, page_reviews >>
          ELSE LET review_elements == PageElements(listing, page_size, page)
               IN IF review_elements = << >>
                  THEN /\ stop_reason' = "no_elements"
                       /\ pc' = "returned"
                       /\ UNCHANGED << reviews, elements, idx, page_reviews >>
                  ELSE /\ elements' = review_elements
                       /\ idx' = 1
                       /\ page_reviews' = << >>
                       /\ pc' = "scan"
                       /\ UNCHANGED << reviews, stop_reason >>
    /\ UNCHANGED << site, calls, date_warnings, scraper, lookup, page, exc,
                    exit_code, output_file >>

\* one iteration of the element loop
ScanElement ==
    /\ pc = "scan"
    /\ idx <= Len(elements)
    /\ LET review == ParseReview(elements[idx], scraper.source)
           dated == review # << >> /\ review[1].review_date.shape # "empty"
           review_dt == IF dated THEN ParseDate(review[1].review_date)
                        ELSE NoDate(FALSE)
       IN /\ date_warnings' = date_warnings + (IF review_dt.warned THEN 1 ELSE 0)
          /\ IF ~review_dt.ok
             THEN /\ idx' = idx + 1
                  /\ UNCHANGED << pc, page_reviews, stop_reason, exc, exit_code >>
             ELSE IF CompareFaults(review_dt)
             THEN /\ Fail("TypeError", 1)
                  /\ UNCHANGED << idx, page_reviews, stop_reason >>
             ELSE IF BeforeStart(review_dt.t, scraper.start_date)
             THEN /\ stop_reason' = "before_start"
                  /\ pc' = "returned"
                  /\ UNCHANGED << idx, page_reviews, exc, exit_code >>
             ELSE /\ idx' = idx + 1
                  /\ page_reviews' =
                        IF InRange(review_dt.t, scraper.start_date, scraper.end_date)
                        THEN Append(page_reviews, review[1])
                        ELSE page_reviews
                  /\ UNCHANGED << pc, stop_reason, exc, exit_code >>
    /\ UNCHANGED << site, calls, scraper, lookup, requests, page, reviews,
                    elements, output_file >>

\* the end of a page: stop on no accepted record, else accumulate and advance
EndPage ==
    /\ pc = "scan"
    /\ idx > Len(elements)
    /\ IF page_reviews = << >>
       THEN /\ stop_reason' = "no_in_range"
            /\ pc' = "returned"
            /\ UNCHANGED << reviews, page >>
       ELSE /\ reviews' = reviews \o page_reviews
            /\ page' = page + 1
            /\ pc' = "fetch"
            /\ UNCHANGED stop_reason
    /\ UNCHANGED << site, calls, date_warnings, scraper, lookup, requests,
                    elements, idx, page_reviews, exc, exit_code, output_file >>

\* main after scrape_reviews returned: the output document and exit code 0
WriteOutput ==
    /\ pc = "returned"
    /\ output_file' = << OutputData(args, reviews) >>
    /\ exit_code' = 0
    /\ pc' = "exit"
    /\ UNCHANGED << site, calls, date_warnings, scraper, lookup, requests, page,
                    reviews, elements, idx, page_reviews, stop_reason, exc >>

Next ==
    \/ Startup
    \/ Search
    \/ FetchPage
    \/ ScanElement
    \/ EndPage
    \/ WriteOutput

Spec == Init /\ [][Next]_vars

\* the run is one synchronous thread and every request returns or times out:
\* a step that can be taken is eventually taken
FairSpec == Init /\ [][Next]_vars /\ WF_vars(Next)

\* ---- parse_date called on its own ----
ParseInputs ==
    ElementDates
        \cup {Text("None", 0, FALSE), Text("%B %d, %Y", 1, FALSE),
              Text("%m/%d/%Y", 1, FALSE), Text("%Y-%-m-%-d", 1, FALSE),
              Text("iso-T", 1, TRUE), Text("iso-offset", 1, TRUE)}

InitParse ==
    /\ args = [company_name |-> "Acme", start_date |-> Text("%Y-%m-%d", 1, FALSE),
               end_date |-> Text("%Y-%m-%d", 1, FALSE), source |-> "G2"]
    /\ listing = << >>
    /\ page_size = 1
    /\ pc = "parse_date"
    /\ scraper = NoScraper
    /\ lookup = "none"
    /\ requests = << >>
    /\ page = 0
    /\ reviews = << >>
    /\ elements = << >>
    /\ idx = 0
    /\ page_reviews = << >>
    /\ stop_reason = "none"
    /\ exc = "none"
    /\ exit_code = -1
    /\ output_file = << >>
    /\ calls = << >>
    /\ date_warnings = 0

\* one call parse_date(date_str): its result and the warning it logs
CallParseDate ==
    /\ pc = "parse_date"
    /\ Len(calls) < MaxCalls
    /\ \E date_str \in ParseInputs :
          LET result == ParseDate(date_str)
          IN /\ calls' = Append(calls, [date_str |-> date_str, result |-> result])
             /\ date_warnings' = date_warnings + (IF result.warned THEN 1 ELSE 0)
    /\ UNCHANGED << site, pc, scraper, lookup, requests, page, reviews, elements,
                    idx, page_reviews, stop_reason, exc, exit_code, output_file >>

NextParse == CallParseDate

SpecParse == InitParse /\ [][NextParse]_vars

\* ---- what the properties speak about ----

\* the record an element yields
RecordOf(e) ==
    [source |-> scraper.source, title |-> e.title, description |-> e.description,
     review_date |-> e.date, reviewer_name |-> e.reviewer_name, rating |-> e.rating]

HasContent(e) == e.title # "" \/ e.description # ""

\* the element yields a record whose date parses to a naive datetime
Dated(e) ==
    /\ HasContent(e)
    /\ e.date.shape \in {"%Y-%m-%d", "%Y-%m-%d %H:%M:%S"}

InstantOf(e) == Instant(e.date.day, e.date.late)

\* the element's date lies in the window of instants [start, end]
InWindow(e) ==
    /\ Dated(e)
    /\ scraper.start_date <= InstantOf(e)
    /\ InstantOf(e) <= scraper.end_date

\* the element's date falls on a calendar day of the window
OnWindowDay(e) ==
    /\ Dated(e)
    /\ args.start_date.day <= e.date.day
    /\ e.date.day <= args.end_date.day

Occurs(r, s) == \E i \in DOMAIN s : s[i] = r

\* C1: when a record dated before the window start is met, the returned
\* sequence holds the in-window records of the current page seen before it,
\* and not the too-old record
C1_StopKeepsCurrentPage ==
    (pc = "returned" /\ stop_reason = "before_start") =>
        /\ \A j \in 1..(idx - 1) :
              InWindow(elements[j]) => Occurs(RecordOf(elements[j]), reviews)
        /\ ~Occurs(RecordOf(elements[idx]), reviews)

\* C2: on a listing emitted newest first, whose elements all yield a record
\* with a parseable date, and with no transport failure, the returned
\* sequence holds every record of the listing dated within the window
NewestFirst ==
    \A i, j \in DOMAIN listing : i < j => InstantOf(listing[i]) > InstantOf(listing[j])

C2_AllInWindowCollected ==
    (/\ pc = "returned"
     /\ stop_reason # "transport"
     /\ \A j \in DOMAIN listing : Dated(listing[j])
     /\ NewestFirst) =>
        \A j \in DOMAIN listing :
            InWindow(listing[j]) => Occurs(RecordOf(listing[j]), reviews)

\* C4: a record dated on a calendar day of the window, the end day included
\* whatever the time of day, is accepted by the page filter
C4_EndDayAccepted ==
    pc = "scan" =>
        \A j \in 1..(idx - 1) :
            OnWindowDay(elements[j]) => Occurs(RecordOf(elements[j]), page_reviews)

\* C9: a date that parse_date parses never makes the comparison with the
\* window bounds fault: the run never ends on a TypeError
C9_ParsedDateComparable == exc # "TypeError"

\* C3: the window edges are inclusive in the page filter: a record whose
\* date d satisfies start <= d <= end (d = start and d = end included) is
\* appended to the page's accepted records and the scan goes on, it does not
\* stop on 'before start'
C3_EdgesInclusive ==
    [][(pc = "scan" /\ idx <= Len(elements) /\ InWindow(elements[idx])) =>
          /\ pc' = "scan"
          /\ idx' = idx + 1
          /\ page_reviews' = Append(page_reviews, RecordOf(elements[idx]))
          /\ stop_reason' = "none"]_vars

C3_Witness ==
    /\ pc = "scan"
    /\ scraper.start_date < scraper.end_date
    /\ \E j, k \in 1..(idx - 1) :
          /\ Dated(elements[j]) /\ InstantOf(elements[j]) = scraper.start_date
          /\ Dated(elements[k]) /\ InstantOf(elements[k]) = scraper.end_date
          /\ Occurs(RecordOf(elements[j]), page_reviews)
          /\ Occurs(RecordOf(elements[k]), page_reviews)

\* the accepted records of page k, and of pages 1..k
AcceptedOfPage(k) ==
    LET kept == SelectSeq(PageElements(listing, page_size, k), InWindow)
    IN [i \in 1..Len(kept) |-> RecordOf(kept[i])]

RECURSIVE AcceptedUpTo(_)
AcceptedUpTo(k) == IF k <= 0 THEN << >> ELSE AcceptedUpTo(k - 1) \o AcceptedOfPage(k)

\* one lookup request, then the pages 1..k in order, each once
RequestsUpTo(k) ==
    << [kind |-> "search", page |-> 0] >> \o [i \in 1..k |-> [kind |-> "page", page |-> i]]

\* C5: a transport failure on page k ends the pagination without a retry,
\* the records of pages 1..k-1 are returned, and the run ends with the
\* output document written and exit code 0, also for k = 1
C5_TransportFailurePartial ==
    stop_reason = "transport" =>
        /\ pc \in {"returned", "exit"}
        /\ exc = "none"
        /\ reviews = AcceptedUpTo(page - 1)
        /\ requests = RequestsUpTo(page)
        /\ pc = "exit" =>
              /\ exit_code = 0
              /\ Len(output_file) = 1
              /\ output_file[1].reviews = AcceptedUpTo(page - 1)

C5_Witness ==
    /\ pc = "exit"
    /\ stop_reason = "transport"
    /\ page = 2
    /\ exit_code = 0
    /\ Len(output_file) = 1
    /\ Len(output_file[1].reviews) = 1

\* C6: a failed lookup (no matching link, or a transport failure of the
\* search request) raises ScrapingError: the lookup is the only request of
\* the run, no page is requested, nothing is written, the exit code is 1
C6_LookupFailureTerminal ==
    lookup \in {"nolink", "transport"} =>
        /\ pc = "exit"
        /\ exc = "ScrapingError"
        /\ exit_code = 1
        /\ output_file = << >>
        /\ requests = << [kind |-> "search", page |-> 0] >>
        /\ page = 0

C6_Witness ==
    /\ lookup = "transport"
    /\ pc = "exit"
    /\ exit_code = 1
    /\ Len(requests) = 1

StrictForm(text) == text.shape = "%Y-%m-%d"

TemplateMatches(text) == text.shape \in {"%Y-%m-%d", "%Y-%-m-%-d"}

NoNetworkNoOutput == requests = << >> /\ output_file = << >>

WindowOfArgs ==
    /\ scraper.start_date = Instant(args.start_date.day, FALSE)
    /\ scraper.end_date = Instant(args.end_date.day, FALSE)
    /\ scraper.start_date <= scraper.end_date

\* C7 as stated: every validation error (a date not in strict YYYY-MM-DD
\* form, start later than end, an unsupported source) is detected before any
\* request, ends the run with exit code 1 and writes nothing; otherwise
\* validate_dates returns the two dates
C7_Original ==
    LET invalid == \/ ~StrictForm(args.start_date)
                   \/ ~StrictForm(args.end_date)
                   \/ args.start_date.day > args.end_date.day
                   \/ args.source \notin Choices
    IN /\ invalid => /\ NoNetworkNoOutput
                     /\ pc \in {"main", "exit"}
                     /\ pc = "exit" => exit_code = 1
       /\ (~invalid /\ pc # "main") => WindowOfArgs

\* C7 amended: an unsupported source is rejected by the argument parser
\* with exit code 2; a date the template %Y-%m-%d does not match (it matches
\* a month or day without leading zero) or start later than end ends the run
\* with exit code 1; both before any request and with nothing written;
\* otherwise validate_dates returns the midnights of the two calendar days
C7_ValidationBeforeNetwork ==
    LET baddates == \/ ~TemplateMatches(args.start_date)
                    \/ ~TemplateMatches(args.end_date)
                    \/ args.start_date.day > args.end_date.day
    IN /\ args.source \notin Choices =>
             /\ NoNetworkNoOutput
             /\ pc \in {"main", "exit"}
             /\ pc = "exit" => (exit_code = 2 /\ exc = "SystemExit")
       /\ (args.source \in Choices /\ baddates) =>
             /\ NoNetworkNoOutput
             /\ pc \in {"main", "exit"}
             /\ pc = "exit" => (exit_code = 1 /\ exc = "ValueError")
       /\ (args.source \in Choices /\ ~baddates /\ pc # "main") =>
             /\ WindowOfArgs
             /\ scraper.source = args.source

C7_Witness ==
    /\ pc = "exit"
    /\ args.source = "Yelp"
    /\ args.start_date.day > args.end_date.day
    /\ exit_code = 2
    /\ NoNetworkNoOutput

RECURSIVE IsSubSeq(_, _)
IsSubSeq(s, t) ==
    IF s = << >> THEN TRUE
    ELSE IF t = << >> THEN FALSE
    ELSE IF Head(s) = Head(t) THEN IsSubSeq(Tail(s), Tail(t))
    ELSE IsSubSeq(s, Tail(t))

AllRecords == [i \in 1..Len(listing) |-> RecordOf(listing[i])]

\* C8: whenever scrape_reviews returned, the run ends with exit code 0 and
\* one output document: total_reviews is the number of reviews, reviews are
\* the returned records in listing order, and the company name, source,
\* start date and end date are the argument texts
C8_OutputDocument ==
    /\ stop_reason # "none" => (pc \in {"returned", "exit"} /\ exc = "none")
    /\ (pc = "exit" /\ stop_reason # "none") =>
          /\ exit_code = 0
          /\ Len(output_file) = 1
          /\ output_file[1].total_reviews = Len(output_file[1].reviews)
          /\ output_file[1].reviews = reviews
          /\ IsSubSeq(output_file[1].reviews, AllRecords)
          /\ output_file[1].company_name = args.company_name
          /\ output_file[1].source = args.source
          /\ output_file[1].start_date = args.start_date
          /\ output_file[1].end_date = args.end_date
    /\ (pc = "exit" /\ stop_reason # "none" /\ reviews = << >>) =>
          /\ output_file[1].total_reviews = 0
          /\ output_file[1].reviews = << >>

C8_Witness ==
    /\ pc = "exit"
    /\ exit_code = 0
    /\ Len(output_file) = 1
    /\ output_file[1].total_reviews = 2
    /\ output_file[1].reviews[1] # output_file[1].reviews[2]
    /\ args.start_date # args.end_date
    /\ page = 3

NoneInputs == {"empty", "None", "relative"}

\* C10 as stated: parse_date on "", None and a relative expression returns
\* None, logs a warning and raises nothing, in all three cases
C10_Original ==
    \A i \in DOMAIN calls :
        calls[i].date_str.shape \in NoneInputs =>
            /\ ~calls[i].result.ok
            /\ calls[i].result.warned
            /\ ~calls[i].result.raised

\* C10 amended: parse_date on "", None and a relative expression returns
\* None and raises nothing in all three cases; the warning is logged for the
\* relative expression only, "" and None return without a warning
C10_NoneWithoutException ==
    /\ \A i \in DOMAIN calls :
          calls[i].date_str.shape \in NoneInputs =>
              /\ ~calls[i].result.ok
              /\ ~calls[i].result.raised
              /\ calls[i].result.warned <=> (calls[i].date_str.shape = "relative")
    /\ date_warnings =
          Cardinality({i \in DOMAIN calls : calls[i].date_str.shape = "relative"})

C10_Witness ==
    /\ Len(calls) = 2
    /\ calls[1].date_str.shape = "relative"
    /\ calls[2].date_str.shape \in {"empty", "None"}
    /\ date_warnings = 1

\* the element yields a record whose date is missing or does not parse
Undated(e) == HasContent(e) /\ e.date.shape \in {"empty", "relative"}

NoUndated(s) == \A i \in DOMAIN s : s[i].review_date.shape \notin {"empty", "relative"}

\* C11: a record whose date is missing or fails to parse is not added to the
\* page's accepted records and does not trigger the 'before start' stop: the
\* scan continues with the next element of the same page, and no such record
\* is ever among the accepted, accumulated or written records
C11_UndatedSkipped ==
    [][/\ (pc = "scan" /\ idx <= Len(elements) /\ Undated(elements[idx])) =>
             /\ pc' = "scan"
             /\ idx' = idx + 1
             /\ elements' = elements
             /\ page_reviews' = page_reviews
             /\ reviews' = reviews
             /\ stop_reason' = "none"
             /\ exc' = "none"
       /\ NoUndated(page_reviews')
       /\ NoUndated(reviews')
       /\ \A i \in DOMAIN output_file' : NoUndated(output_file'[i].reviews)]_vars

C11_Witness ==
    /\ pc = "exit"
    /\ exit_code = 0
    /\ page_size = 2
    /\ Len(listing) = 2
    /\ Undated(listing[1])
    /\ listing[1].date.shape = "relative"
    /\ InWindow(listing[2])
    /\ reviews = << RecordOf(listing[2]) >>
    /\ date_warnings = 1

\* page j has review elements, at least one record in the window and no
\* record dated before the window start
PageAdvances(j) ==
    LET els == PageElements(listing, page_size, j)
    IN /\ els # << >>
       /\ \E i \in DOMAIN els : InWindow(els[i])
       /\ \A i \in DOMAIN els : Dated(els[i]) => InstantOf(els[i]) >= scraper.start_date

\* C12: the requests are one lookup, then the pages 1, 2, 3, ... in order,
\* each once and never retried; page k+1 is requested only after page k was
\* fetched, had review elements, yielded an in-window record and no record
\* dated before start; after a transport failure, a stop or an exception no
\* further request is issued
C12_RequestOrder ==
    [][/\ requests' = << >> \/ requests' = RequestsUpTo(Len(requests') - 1)
       /\ requests' # requests =>
             /\ Len(requests') = Len(requests) + 1
             /\ stop_reason = "none"
             /\ exc = "none"
       /\ \A j \in 1..(Len(requests') - 2) : PageAdvances(j)
       /\ (stop_reason # "none" \/ exc # "none") => requests' = requests]_vars

C12_Witness ==
    /\ requests = RequestsUpTo(3)
    /\ stop_reason = "no_elements"
    /\ PageAdvances(1)
    /\ PageAdvances(2)
    /\ pc = "exit"

\* the number of pages of the listing that have review elements
LastPage == (Len(listing) + page_size - 1) \div page_size

StopConditions == {"transport", "no_elements", "before_start", "no_in_range"}

\* the run ends after a successful lookup, and no page above LastPage + 1
\* was requested
Terminates ==
    /\ (lookup = "found") ~> (pc = "exit")
    /\ [](Len(requests) <= LastPage + 2)

\* C13: on a finite listing, after a successful lookup the loop eventually
\* returns through one of its four stop conditions, and no page number above
\* N + 1 is requested, N being the number of pages with review elements
C13_LoopReturns ==
    /\ (lookup = "found") ~> (stop_reason \in StopConditions)
    /\ [](Len(requests) <= LastPage + 2)

IsPrefix(s, t) == Len(s) <= Len(t) /\ SubSeq(t, 1, Len(s)) = s

\* the record has a title or a description, a date that parses to a datetime
\* within the window, and the source tag of the selected platform
RecordInvariant(r) ==
    /\ r.title # "" \/ r.description # ""
    /\ r.review_date.shape \in {"%Y-%m-%d", "%Y-%m-%d %H:%M:%S"}
    /\ Instant(args.start_date.day, FALSE)
          <= Instant(r.review_date.day, r.review_date.late)
    /\ Instant(r.review_date.day, r.review_date.late)
          <= Instant(args.end_date.day, FALSE)
    /\ r.source = args.source

\* C14: the accumulated list only grows, by appending the accepted records
\* of a whole page, and is never reordered or truncated; each of its
\* records has a title or description, a date within the window and the
\* platform's source tag; and the page counter p satisfies
\* p - 1 <= number of accumulated records
C14_AccumulatedList ==
    [][/\ IsPrefix(reviews, reviews')
       /\ reviews' # reviews =>
             /\ reviews' = reviews \o AcceptedOfPage(page)
             /\ AcceptedOfPage(page) # << >>
             /\ page' = page + 1
       /\ \A i \in DOMAIN reviews' : RecordInvariant(reviews'[i])
       /\ page' - 1 <= Len(reviews')]_vars

C14_Witness ==
    /\ pc = "returned"
    /\ page = 3
    /\ Len(reviews) = 2
    /\ reviews[1] # reviews[2]
    /\ reviews = AcceptedUpTo(2)

====
